---- MODULE Spec2Model ----
(***************************************************************************)
(* A model of the CHIP-8 interpreter of src/1.py: the Chip8 class (machine *)
(* state, load_rom, emulate_cycle, set_keys) and the GUI class (draw,      *)
(* handle_events, run).  A Python list is a sequence: the element at index  *)
(* k of a list l of length n is l[PyPos(n, k)].  A Python exception is      *)
(* recorded in err, console output in out.                                  *)
(***************************************************************************)
EXTENDS Integers, Sequences, FiniteSets, TLC

\* ------------------------------------------------------------------------
\* Program constants (src/1.py:9-14)
CHIP8_MEMORY_SIZE == 4096
CHIP8_REGISTER_COUNT == 16
CHIP8_STACK_SIZE == 16
CHIP8_KEYS == 16
CHIP8_WIDTH == 64
CHIP8_HEIGHT == 32

\* 0x200: initial pc (line 42) and the address load_rom writes from (line 60)
PROGRAM_START == 512
\* 0x00E0 and 0x00EE, the two opcodes emulate_cycle decodes (lines 72, 75)
OP_CLS == 224
OP_RET == 238

\* src/1.py:17-34
CHIP8_FONTSET ==
    << 240, 144, 144, 144, 240,
        32,  96,  32,  32, 112,
       240,  16, 240, 128, 240,
       240,  16, 240,  16, 240,
       144, 144, 240,  16,  16,
       240, 128, 240,  16, 240,
       240, 128, 240, 144, 240,
       240,  16,  32,  64,  64,
       240, 144, 240, 144, 240,
       240, 144, 240,  16, 240,
       240, 144, 240, 144, 144,
       224, 144, 224, 144, 224,
       240, 128, 128, 128, 240,
       224, 144, 144, 144, 224,
       240, 128, 240, 128, 240,
       240, 128, 240, 128, 128 >>

\* ------------------------------------------------------------------------
\* Bounds of the model

\* the timers preset before the first cycle (SpecPreset) range over
\* 0..MaxTimer
MaxTimer == 2
\* completed cycles are counted up to MaxCycles, and Spec and SpecPreset take
\* no further cycle then
MaxCycles == 5
\* pygame.event.get() returns at most MaxEvents events to one handle_events
MaxEvents == 2

\* ------------------------------------------------------------------------
\* Python list indexing: an index k of a list of length n is valid when
\* -n <= k < n, and a negative k counts from the end.
PyIndexOk(n, k) == k >= -n /\ k < n

PyPos(n, k) == (IF k < 0 THEN k + n ELSE k) + 1

\* ------------------------------------------------------------------------
\* ROM files: the byte strings f.read() may return for the paths tried.
Pattern(n) == [k \in 1..n |-> (k - 1) % 256]

\* the largest ROM that fits, and one byte more
RomMax == Pattern(CHIP8_MEMORY_SIZE - PROGRAM_START)

RomBig == Pattern(CHIP8_MEMORY_SIZE - PROGRAM_START + 1)

FileContent(path) ==
    CASE path = "empty.ch8" -> << >>
      [] path = "cls.ch8"   -> << 0, OP_CLS >>
      [] path = "ret.ch8"   -> << 0, OP_RET >>
      [] path = "max.ch8"   -> RomMax
      [] path = "big.ch8"   -> RomBig
      [] path = "callwait.ch8" -> << 34, 4, 240, 10 >>

\* callwait.ch8 is 2204 (CALL 0x204) and F00A (LD V0, K)
RomPaths ==
    {"empty.ch8", "cls.ch8", "ret.ch8", "max.ch8", "big.ch8", "callwait.ch8"}

\* key snapshots handed to set_keys
NoKeys == [k \in 1..CHIP8_KEYS |-> 0]

KeyFDown == [k \in 1..CHIP8_KEYS |-> IF k = CHIP8_KEYS THEN 1 ELSE 0]

KeySnapshots == {NoKeys, KeyFDown}

\* the events pygame.event.get() may return to handle_events (line 113):
\* the types and keys it tells apart, and any other event
Events == {"QUIT", "KEYDOWN_1", "KEYUP_1", "OTHER"}

EventBatches == UNION {[1..n -> Events] : n \in 0..MaxEvents}

\* ------------------------------------------------------------------------
VARIABLES
    memory, v, i, pc, gfx, delay_timer, sound_timer, stack, sp, keys,
    draw_flag,   \* the fields of Chip8 (lines 39-49)
    op,          \* the method called last
    arg,         \* load_rom: its rom_path; otherwise ""
    opcode,      \* emulate_cycle: the opcode fetched, NoOpcode when none was
    err,         \* the exception the last call raised, "none" when it returned
    out,         \* what the last call printed
    cycles,      \* emulate_cycle calls that have returned, up to MaxCycles
    delay0,      \* delay_timer and sound_timer as they were before the
    sound0,      \* first call
    screen,      \* GUI.screen: the pixels shown white, the others are black
    run_at       \* where main and GUI.run stand: "main", "cycle", "draw",
                 \* "events", or "exit" when the process has ended

machine == << memory, v, i, pc, gfx, delay_timer, sound_timer, stack, sp,
              keys, draw_flag >>

vars == << memory, v, i, pc, gfx, delay_timer, sound_timer, stack, sp, keys,
           draw_flag, op, arg, opcode, err, out, cycles, delay0, sound0,
           screen, run_at >>

NoOpcode == -1

\* ------------------------------------------------------------------------
\* Chip8.__init__

\* lines 39, 52-53
InitialMemory ==
    [a \in 1..CHIP8_MEMORY_SIZE |->
        IF a <= Len(CHIP8_FONTSET) THEN CHIP8_FONTSET[a] ELSE 0]

\* line 43, and line 73
BlankGfx == [p \in 1..(CHIP8_WIDTH * CHIP8_HEIGHT) |-> 0]

Constructed ==
    /\ memory = InitialMemory
    /\ v = [r \in 1..CHIP8_REGISTER_COUNT |-> 0]
    /\ i = 0
    /\ pc = PROGRAM_START
    /\ stack = [s \in 1..CHIP8_STACK_SIZE |-> 0]
    /\ sp = 0
    /\ keys = NoKeys
    /\ draw_flag = FALSE
    /\ op = "__init__"
    /\ arg = ""
    /\ opcode = NoOpcode
    /\ err = "none"
    /\ out = << >>
    /\ cycles = 0
    /\ screen = {}
    /\ run_at = "main"

Init ==
    /\ Constructed
    /\ gfx = BlankGfx
    /\ delay_timer = 0
    /\ sound_timer = 0
    /\ delay0 = 0
    /\ sound0 = 0

\* The fields of Chip8 are plain attributes and no method of the class sets
\* a timer or a pixel: a caller that wants them set assigns them.  InitPreset
\* is the constructed machine after such assignments to the timers and gfx.
LitGfx ==
    [p \in 1..(CHIP8_WIDTH * CHIP8_HEIGHT) |->
        IF p = 1 \/ p = CHIP8_WIDTH * CHIP8_HEIGHT THEN 1 ELSE 0]

InitPreset ==
    /\ Constructed
    /\ gfx \in {BlankGfx, LitGfx}
    /\ delay_timer \in 0..MaxTimer
    /\ sound_timer \in 0..MaxTimer
    /\ delay0 = delay_timer
    /\ sound0 = sound_timer

\* ------------------------------------------------------------------------
\* Chip8.load_rom

\* (mutant) the bound of the store is one too large
LoadError_OffByOne(rom) ==
    IF Len(rom) > 0
       /\ ~ PyIndexOk(CHIP8_MEMORY_SIZE + 1, PROGRAM_START + Len(rom) - 1)
    THEN "IndexError"
    ELSE "none"

\* line 60: the store memory[0x200 + idx] = byte raises IndexError at the
\* first idx for which 0x200 + idx is no valid index; the indices ascend, so
\* one is invalid exactly when the last is
LoadError(rom) ==
    IF Len(rom) > 0
       /\ ~ PyIndexOk(CHIP8_MEMORY_SIZE, PROGRAM_START + Len(rom) - 1)
    THEN "IndexError"
    ELSE "none"

\* the number of bytes the loop of lines 59-60 stores before it ends or raises
Stored(rom) ==
    IF LoadError(rom) = "none" THEN Len(rom)
    ELSE CHIP8_MEMORY_SIZE - PROGRAM_START

\* (mutant) the loop misses the last byte of the ROM
LoadedMemory_ShortByOne(mem, rom) ==
    LET n == IF Stored(rom) > 0 THEN Stored(rom) - 1 ELSE 0
    IN  SubSeq(mem, 1, PROGRAM_START)
          \o SubSeq(rom, 1, n)
          \o SubSeq(mem, PROGRAM_START + n + 1, CHIP8_MEMORY_SIZE)

\* (mutant) the memory behind the ROM is zeroed
LoadedMemory_ZeroFill(mem, rom) ==
    SubSeq(mem, 1, PROGRAM_START)
      \o SubSeq(rom, 1, Stored(rom))
      \o [a \in 1..(CHIP8_MEMORY_SIZE - PROGRAM_START - Stored(rom)) |-> 0]

\* (mutant) the ROM is stored from address 0
LoadedMemory_AtZero(mem, rom) ==
    SubSeq(rom, 1, Stored(rom))
      \o SubSeq(mem, Stored(rom) + 1, CHIP8_MEMORY_SIZE)

\* lines 59-60: the loop stores rom[idx] at index 0x200 + idx for
\* idx = 0, 1, ...: the cells before 0x200 and after the last store are kept
LoadedMemory(mem, rom) ==
    SubSeq(mem, 1, PyPos(CHIP8_MEMORY_SIZE, PROGRAM_START) - 1)
      \o SubSeq(rom, 1, Stored(rom))
      \o SubSeq(mem, PyPos(CHIP8_MEMORY_SIZE, PROGRAM_START) + Stored(rom),
                CHIP8_MEMORY_SIZE)

load_rom(rom_path) ==
    /\ memory' = LoadedMemory(memory, FileContent(rom_path))
    /\ err' = LoadError(FileContent(rom_path))
    /\ op' = "load_rom"
    /\ arg' = rom_path
    /\ opcode' = NoOpcode
    /\ out' = << >>
    /\ UNCHANGED << v, i, pc, gfx, delay_timer, sound_timer, stack, sp, keys,
                    draw_flag, cycles, delay0, sound0, screen >>

\* ------------------------------------------------------------------------
\* Chip8.set_keys (lines 89-90)
set_keys(new_keys) ==
    /\ keys' = new_keys
    /\ op' = "set_keys"
    /\ arg' = ""
    /\ opcode' = NoOpcode
    /\ err' = "none"
    /\ out' = << >>
    /\ UNCHANGED << memory, v, i, pc, gfx, delay_timer, sound_timer, stack,
                    sp, draw_flag, cycles, delay0, sound0, screen >>

\* ------------------------------------------------------------------------
\* Chip8.emulate_cycle

\* (mutant) the bound of the fetch is one too large
FetchError_OffByOne(mem, at) ==
    IF at >= -CHIP8_MEMORY_SIZE /\ at <= CHIP8_MEMORY_SIZE
    THEN "none"
    ELSE "IndexError"

\* line 68: both subscripts must be valid, or the fetch raises IndexError
FetchError(mem, at) ==
    IF PyIndexOk(CHIP8_MEMORY_SIZE, at) /\ PyIndexOk(CHIP8_MEMORY_SIZE, at + 1)
    THEN "none"
    ELSE "IndexError"

\* line 68: memory[pc] << 8 | memory[pc + 1]; the bytes are below 256, so the
\* or is a sum
FetchOpcode(mem, at) ==
    IF PyIndexOk(CHIP8_MEMORY_SIZE, at) /\ PyIndexOk(CHIP8_MEMORY_SIZE, at + 1)
    THEN mem[PyPos(CHIP8_MEMORY_SIZE, at)] * 256
           + mem[PyPos(CHIP8_MEMORY_SIZE, at + 1)]
    ELSE NoOpcode

\* lines 76-77: after sp -= 1, stack[sp] raises IndexError on an invalid index
RetError(spNew) ==
    IF PyIndexOk(CHIP8_STACK_SIZE, spNew) THEN "none" ELSE "IndexError"

\* (mutant) RET takes the stack pointer for the return address
RetTarget_Sp(stk, spNew) == spNew

\* (mutant) RET returns to the top of the program
RetTarget_Start(stk, spNew) == PROGRAM_START

\* line 77
RetTarget(stk, spNew) == stk[PyPos(CHIP8_STACK_SIZE, spNew)]

\* (mutant) CLS leaves the pixels as they are
GfxAfter_Kept(code, g) == g

\* lines 72-73
GfxAfter(code, g) == IF code = OP_CLS THEN BlankGfx ELSE g

\* (mutant) CLS does not raise the draw flag
DrawFlagAfter_Kept(code, flag) == flag

\* (mutant) every cycle assigns the draw flag
DrawFlagAfter_Assigned(code, flag) == code = OP_CLS

\* lines 72, 74
DrawFlagAfter(code, flag) == IF code = OP_CLS THEN TRUE ELSE flag

\* (mutant) the timer is decremented without the test
TimerTick_NoTest(t) == t - 1

\* lines 82-83 and 84-87
TimerTick(t) == IF t > 0 THEN t - 1 ELSE t

\* lines 79, 85-86: the lines printed by a cycle that decodes code and
\* finds the sound timer at st (the opcode printed is the variable opcode)
Printed(code, st) ==
    (IF code \notin {OP_CLS, OP_RET} THEN << "Unknown opcode" >> ELSE << >>)
      \o (IF st = 1 THEN << "BEEP!" >> ELSE << >>)

\* (mutant) emulate_cycle with a branch for 2nnn (CALL) that pushes pc
emulate_cycle_WithCall ==
    LET code == FetchOpcode(memory, pc)
        fetchErr == FetchError(memory, pc)
        call == fetchErr = "none" /\ code \div 4096 = 2
        retErr == IF fetchErr = "none" /\ code = OP_RET
                  THEN RetError(sp - 1)
                  ELSE IF call THEN RetError(sp) ELSE "none"
        raised == IF fetchErr # "none" THEN fetchErr ELSE retErr
    IN
    /\ op' = "emulate_cycle"
    /\ arg' = ""
    /\ opcode' = code
    /\ err' = raised
    /\ pc' = IF fetchErr # "none" THEN pc
             ELSE IF code = OP_RET /\ retErr = "none"
                  THEN RetTarget(stack, sp - 1)
                  ELSE IF call /\ retErr = "none" THEN code % 4096
                  ELSE pc + 2
    /\ sp' = IF fetchErr = "none" /\ code = OP_RET THEN sp - 1
             ELSE IF call /\ retErr = "none" THEN sp + 1 ELSE sp
    /\ stack' = IF call /\ retErr = "none"
                THEN [stack EXCEPT ![PyPos(CHIP8_STACK_SIZE, sp)] = pc + 2]
                ELSE stack
    /\ gfx' = GfxAfter(code, gfx)
    /\ draw_flag' = DrawFlagAfter(code, draw_flag)
    /\ delay_timer' = IF raised = "none" THEN TimerTick(delay_timer)
                      ELSE delay_timer
    /\ sound_timer' = IF raised = "none" THEN TimerTick(sound_timer)
                      ELSE sound_timer
    /\ out' = IF raised = "none" THEN Printed(code, sound_timer) ELSE << >>
    /\ cycles' = IF raised = "none" /\ cycles < MaxCycles
                 THEN cycles + 1 ELSE cycles
    /\ UNCHANGED << memory, v, i, keys, delay0, sound0, screen >>

emulate_cycle ==
    LET code == FetchOpcode(memory, pc)
        fetchErr == FetchError(memory, pc)
        retErr == IF fetchErr = "none" /\ code = OP_RET
                  THEN RetError(sp - 1) ELSE "none"
        raised == IF fetchErr # "none" THEN fetchErr ELSE retErr
    IN
    /\ op' = "emulate_cycle"
    /\ arg' = ""
    /\ opcode' = code
    /\ err' = raised
    /\ pc' = IF fetchErr # "none" THEN pc
             ELSE IF code = OP_RET /\ retErr = "none"
                  THEN RetTarget(stack, sp - 1)
                  ELSE pc + 2
    /\ sp' = IF fetchErr = "none" /\ code = OP_RET THEN sp - 1 ELSE sp
    /\ gfx' = GfxAfter(code, gfx)
    /\ draw_flag' = DrawFlagAfter(code, draw_flag)
    /\ delay_timer' = IF raised = "none" THEN TimerTick(delay_timer)
                      ELSE delay_timer
    /\ sound_timer' = IF raised = "none" THEN TimerTick(sound_timer)
                      ELSE sound_timer
    /\ out' = IF raised = "none" THEN Printed(code, sound_timer) ELSE << >>
    /\ cycles' = IF raised = "none" /\ cycles < MaxCycles
                 THEN cycles + 1 ELSE cycles
    /\ UNCHANGED << memory, v, i, stack, keys, delay0, sound0, screen >>

\* ------------------------------------------------------------------------
\* GUI.draw (lines 100-109)

\* lines 104-107: a white square for each pixel that is 1, at x + y * 64
LitPixels(g) == {p \in 0..(CHIP8_WIDTH * CHIP8_HEIGHT - 1) : g[p + 1] = 1}

\* (mutant) draw leaves the flag raised
FlagAfterDraw_Kept(flag) == flag

\* lines 102, 109
FlagAfterDraw(flag) == IF flag THEN FALSE ELSE flag

draw ==
    /\ screen' = IF draw_flag THEN LitPixels(gfx) ELSE screen
    /\ draw_flag' = FlagAfterDraw(draw_flag)
    /\ op' = "draw"
    /\ arg' = ""
    /\ opcode' = NoOpcode
    /\ err' = "none"
    /\ out' = << >>
    /\ UNCHANGED << memory, v, i, pc, gfx, delay_timer, sound_timer, stack,
                    sp, keys, cycles, delay0, sound0 >>

\* ------------------------------------------------------------------------
\* GUI.handle_events (lines 111-124)

\* lines 117-123: the key entry 0x1 is assigned in place
KeyEvent(k, e) ==
    CASE e = "KEYDOWN_1" -> [k EXCEPT ![PyPos(CHIP8_KEYS, 1)] = 1]
      [] e = "KEYUP_1"   -> [k EXCEPT ![PyPos(CHIP8_KEYS, 1)] = 0]
      [] OTHER           -> k

\* lines 113-116: the events are handled in order; quit() at the first QUIT
\* raises SystemExit and the rest is not handled
RECURSIVE KeysAfter(_, _)
KeysAfter(k, events) ==
    IF events = << >> \/ Head(events) = "QUIT" THEN k
    ELSE KeysAfter(KeyEvent(k, Head(events)), Tail(events))

EventsError(events) ==
    IF \E n \in 1..Len(events) : events[n] = "QUIT"
    THEN "SystemExit" ELSE "none"

handle_events(events) ==
    /\ keys' = KeysAfter(keys, events)
    /\ err' = EventsError(events)
    /\ op' = "handle_events"
    /\ arg' = ""
    /\ opcode' = NoOpcode
    /\ out' = << >>
    /\ UNCHANGED << memory, v, i, pc, gfx, delay_timer, sound_timer, stack,
                    sp, draw_flag, cycles, delay0, sound0, screen >>

\* ------------------------------------------------------------------------
\* Any sequence of ROM loads, key updates and cycles on the constructed
\* machine, up to MaxCycles cycles.
Next ==
    \/ /\ \E rom_path \in RomPaths : load_rom(rom_path)
       /\ UNCHANGED run_at
    \/ /\ \E new_keys \in KeySnapshots : set_keys(new_keys)
       /\ UNCHANGED run_at
    \/ /\ cycles < MaxCycles
       /\ emulate_cycle
       /\ UNCHANGED run_at

Spec == Init /\ [][Next]_vars

\* The same calls on a machine whose timers and pixels were preset.
SpecPreset == InitPreset /\ [][Next]_vars

\* The calls of Next and those of the GUI on the constructed machine, in any
\* order; after quit() there is no process left to make a call.
NextGUI ==
    \/ /\ err # "SystemExit"
       /\ \E rom_path \in RomPaths : load_rom(rom_path)
       /\ UNCHANGED run_at
    \/ /\ err # "SystemExit"
       /\ \E new_keys \in KeySnapshots : set_keys(new_keys)
       /\ UNCHANGED run_at
    \/ /\ err # "SystemExit"
       /\ cycles < MaxCycles
       /\ emulate_cycle
       /\ UNCHANGED run_at
    \/ /\ err # "SystemExit"
       /\ draw
       /\ UNCHANGED run_at
    \/ /\ err # "SystemExit"
       /\ \E events \in EventBatches : handle_events(events)
       /\ UNCHANGED run_at

SpecGUI == Init /\ [][NextGUI]_vars

\* main and GUI.run (lines 126-131, 148-165): a ROM is loaded or none is,
\* then the loop calls emulate_cycle, draw and handle_events in turn
\* (clock.tick changes nothing here); an exception that leaves a call ends
\* the process.  The loop is followed for MaxCycles cycles.
NextLoop ==
    \/ /\ run_at = "main"
       /\ \E rom_path \in RomPaths : load_rom(rom_path)
       /\ run_at' = IF err' = "none" THEN "cycle" ELSE "exit"
    \/ /\ run_at = "main"
       /\ run_at' = "cycle"
       /\ UNCHANGED << machine, op, arg, opcode, err, out, cycles, delay0,
                       sound0, screen >>
    \/ /\ run_at = "cycle"
       /\ cycles < MaxCycles
       /\ emulate_cycle
       /\ run_at' = IF err' = "none" THEN "draw" ELSE "exit"
    \/ /\ run_at = "draw"
       /\ draw
       /\ run_at' = "events"
    \/ /\ run_at = "events"
       /\ \E events \in EventBatches : handle_events(events)
       /\ run_at' = IF err' = "none" THEN "cycle" ELSE "exit"

SpecLoop == Init /\ [][NextLoop]_vars

\* The machine run to exhaustion, as main() starts it (lines 150-165): at
\* most one ROM is loaded into the constructed machine, and then
\* emulate_cycle is called again and again (line 128).
NextRun ==
    \/ /\ op = "__init__"
       /\ \E rom_path \in RomPaths : load_rom(rom_path)
       /\ UNCHANGED run_at
    \/ /\ emulate_cycle
       /\ UNCHANGED run_at

\* A state late in the run of the machine with no ROM loaded: the state
\* after the cycles at 0x200, 0x202, ..., LateStart - 2, each of which
\* fetched 0x0000.  The run from Init passes through it, so that starting
\* there as well adds no state to SpecRun; it gives the states at the end of
\* memory a short path.
LateStart == CHIP8_MEMORY_SIZE - 8

LateInRun ==
    /\ memory = InitialMemory
    /\ v = [r \in 1..CHIP8_REGISTER_COUNT |-> 0]
    /\ i = 0
    /\ pc = LateStart
    /\ gfx = BlankGfx
    /\ stack = [s \in 1..CHIP8_STACK_SIZE |-> 0]
    /\ sp = 0
    /\ keys = NoKeys
    /\ draw_flag = FALSE
    /\ delay_timer = 0
    /\ sound_timer = 0
    /\ op = "emulate_cycle"
    /\ arg = ""
    /\ opcode = 0
    /\ err = "none"
    /\ out = Printed(0, 0)
    /\ cycles = MaxCycles
    /\ delay0 = 0
    /\ sound0 = 0
    /\ screen = {}
    /\ run_at = "main"

\* A state late in the run of the machine with ret.ch8 loaded: RET has run
\* 16 times (sp = -16), each time setting pc to 0, and the cycles at
\* 0, 2, ..., 0x1FC have run again; the last one fetched 0x0000.  The run
\* from Init passes through it as well.
LateInRet ==
    /\ memory = LoadedMemory(InitialMemory, FileContent("ret.ch8"))
    /\ v = [r \in 1..CHIP8_REGISTER_COUNT |-> 0]
    /\ i = 0
    /\ pc = PROGRAM_START - 2
    /\ gfx = BlankGfx
    /\ stack = [s \in 1..CHIP8_STACK_SIZE |-> 0]
    /\ sp = -CHIP8_STACK_SIZE
    /\ keys = NoKeys
    /\ draw_flag = FALSE
    /\ delay_timer = 0
    /\ sound_timer = 0
    /\ op = "emulate_cycle"
    /\ arg = ""
    /\ opcode = 0
    /\ err = "none"
    /\ out = Printed(0, 0)
    /\ cycles = MaxCycles
    /\ delay0 = 0
    /\ sound0 = 0
    /\ screen = {}
    /\ run_at = "main"

InitRun == Init \/ LateInRun \/ LateInRet

SpecRun == InitRun /\ [][NextRun]_vars

\* ------------------------------------------------------------------------
\* The claims

\* the condition of line 78: the fetch succeeded and neither branch decodes it
Unrecognized(mem, at) ==
    /\ FetchError(mem, at) = "none"
    /\ FetchOpcode(mem, at) \notin {OP_CLS, OP_RET}

\* C1: a cycle that executes RET (00EE) while sp = 0 fails with an error
\* that reaches the caller; it is not executed as a normal return.
C1_RetOnEmptyStackFails ==
    [][(emulate_cycle /\ FetchOpcode(memory, pc) = OP_RET /\ sp = 0)
          => (err' # "none" /\ sp' = sp)]_vars

\* C2: in every reachable state the stack pointer is in 0..16.
C2_SpInRange == sp \in 0..CHIP8_STACK_SIZE

\* C3: a cycle whose opcode is not recognized returns an error and leaves the
\* machine as it was, except that pc is the former pc plus 2.
C3_UnknownOpcodeIsAnError ==
    [][(emulate_cycle /\ Unrecognized(memory, pc))
          => /\ err' # "none"
             /\ pc' = pc + 2
             /\ UNCHANGED << memory, v, i, sp, stack, delay_timer,
                             sound_timer, gfx, draw_flag, keys >>]_vars

\* C4: a cycle called with pc + 1 >= 4096 fails with the out-of-bounds error
\* (Python's IndexError), fetches nothing and changes nothing; a cycle that
\* does fetch reads memory[pc] and memory[pc + 1] with both in 0..4095.
C4_FetchOutOfBounds ==
    [][emulate_cycle
          => IF pc + 1 >= CHIP8_MEMORY_SIZE
             THEN /\ err' = "IndexError"
                  /\ opcode' = NoOpcode
                  /\ UNCHANGED machine
             ELSE /\ pc >= 0
                  /\ opcode' = memory[pc + 1] * 256 + memory[pc + 2]]_vars

\* C4 witness: the machine has been stepped through memory up to 4094 and
\* the cycle called at pc = 4096 has failed
C4_Witness ==
    /\ op = "emulate_cycle"
    /\ pc = CHIP8_MEMORY_SIZE
    /\ err = "IndexError"

\* C5: after a cycle that executes CLS (00E0) each of the 64*32 pixels is 0
\* and the draw flag is true.
C5_ClsClears ==
    (op = "emulate_cycle" /\ opcode = OP_CLS)
        => /\ Len(gfx) = CHIP8_WIDTH * CHIP8_HEIGHT
           /\ \A p \in 1..Len(gfx) : gfx[p] = 0
           /\ draw_flag = TRUE
           /\ err = "none"

\* C5 witness: CLS has run as the first cycle of a machine with preset
\* timers (InitPreset starts such machines with lit and with blank pixels)
C5_Witness ==
    /\ op = "emulate_cycle"
    /\ opcode = OP_CLS
    /\ cycles = 1
    /\ draw_flag
    /\ delay0 = MaxTimer

NonNeg(x) == IF x > 0 THEN x ELSE 0

\* C6: each cycle that returns decrements the delay timer by exactly 1 if it
\* is non-zero, and the sound timer likewise; from delay_timer = n the timer
\* is n - k after k cycles, 0 after n, and 0 from then on; no timer is ever
\* negative.
C6_Timers ==
    /\ [](/\ delay_timer >= 0
          /\ sound_timer >= 0
          /\ delay_timer = NonNeg(delay0 - cycles)
          /\ sound_timer = NonNeg(sound0 - cycles))
    /\ [][(emulate_cycle /\ err' = "none")
            => /\ delay_timer' = IF delay_timer # 0 THEN delay_timer - 1 ELSE 0
               /\ sound_timer' = IF sound_timer # 0 THEN sound_timer - 1 ELSE 0
         ]_vars

\* C6 witness: the delay timer started at MaxTimer, has run out, and further
\* cycles have been taken
C6_Witness ==
    /\ delay0 = MaxTimer
    /\ sound0 = 1
    /\ cycles > MaxTimer
    /\ delay_timer = 0
    /\ op = "emulate_cycle"

\* C7: after loading a program P of at most 4096 - 0x200 bytes,
\* memory[0x200 + k] = P[k] for every k < len(P).
C7_LoadedProgramReadsBack ==
    (op = "load_rom"
       /\ Len(FileContent(arg)) <= CHIP8_MEMORY_SIZE - PROGRAM_START)
        => \A k \in 0..(Len(FileContent(arg)) - 1) :
              memory[PROGRAM_START + k + 1] = FileContent(arg)[k + 1]

\* C7 witness: the largest program that fits has been loaded
C7_Witness ==
    /\ op = "load_rom"
    /\ arg = "max.ch8"
    /\ err = "none"
    /\ memory[CHIP8_MEMORY_SIZE] = 255

\* C8: loading a program of more than 4096 - 0x200 bytes fails with an error
\* (Python's IndexError, raised by the first store behind the memory).
C8_TooLargeFails ==
    (op = "load_rom"
       /\ Len(FileContent(arg)) > CHIP8_MEMORY_SIZE - PROGRAM_START)
        => err = "IndexError"

\* C8 witness: a program one byte too large has been loaded
C8_Witness ==
    /\ op = "load_rom"
    /\ arg = "big.ch8"
    /\ err = "IndexError"

\* C9: a load changes only the memory cells 0x200 .. 0x200 + len - 1; the
\* registers, I, pc, sp, the stack, the timers, the pixels, the draw flag, the
\* keypad and the rest of memory are as before.
C9_LoadFrame ==
    [][\A rom_path \in RomPaths :
          load_rom(rom_path)
            => /\ UNCHANGED << v, i, pc, sp, stack, delay_timer, sound_timer,
                               gfx, draw_flag, keys >>
               /\ Len(memory') = Len(memory)
               /\ \A a \in 0..(CHIP8_MEMORY_SIZE - 1) :
                     (a < PROGRAM_START
                        \/ a > PROGRAM_START + Len(FileContent(rom_path)) - 1)
                       => memory'[a + 1] = memory[a + 1]]_vars

\* C9 witness: a short program has been loaded over a long one, whose bytes
\* behind the short one are still there, after the machine has run
C9_Witness ==
    /\ op = "load_rom"
    /\ arg = "cls.ch8"
    /\ memory[PROGRAM_START + 2] = OP_CLS
    /\ memory[PROGRAM_START + 3] = 2
    /\ pc # PROGRAM_START
    /\ keys = KeyFDown

\* C10: memory[0x000 .. 0x04F] is the fontset after construction and in every
\* state reached by loads, key updates and cycles.
C10_FontsetKept ==
    \A a \in 0..(Len(CHIP8_FONTSET) - 1) : memory[a + 1] = CHIP8_FONTSET[a + 1]

\* C10 witness: programs have been loaded, keys set, and the machine has
\* returned to address 0 and run on the fontset
C10_Witness ==
    /\ arg = ""
    /\ memory[PROGRAM_START + 2] = OP_RET
    /\ memory[CHIP8_MEMORY_SIZE] = 255
    /\ keys = KeyFDown
    /\ op = "emulate_cycle"
    /\ opcode = CHIP8_FONTSET[1] * 256 + CHIP8_FONTSET[2]
    /\ pc = 2

\* C11: the draw flag becomes true only in a cycle whose instruction writes
\* the framebuffer (CLS); no cycle turns it from true to false, so that it
\* stays true over further cycles; only GUI.draw clears it.
C11_DrawFlag ==
    [][/\ (~ draw_flag /\ draw_flag')
            => (emulate_cycle /\ FetchOpcode(memory, pc) = OP_CLS)
       /\ (draw_flag /\ ~ draw_flag') => draw
       /\ emulate_cycle => (draw_flag => draw_flag')]_vars

\* C11 witness: a cycle other than CLS has ended with the flag raised, which
\* an earlier CLS had raised
C11_Witness ==
    /\ op = "emulate_cycle"
    /\ opcode # OP_CLS
    /\ err = "none"
    /\ draw_flag

\* C12: a cycle that executes CALL nnn (2nnn) with room on the stack pushes
\* the advanced pc and jumps to nnn.
C12_CallPushesAndJumps ==
    [][(/\ emulate_cycle
        /\ FetchError(memory, pc) = "none"
        /\ FetchOpcode(memory, pc) \div 4096 = 2
        /\ sp \in 0..(CHIP8_STACK_SIZE - 1))
          => /\ sp' = sp + 1
             /\ pc' = FetchOpcode(memory, pc) % 4096
             /\ stack'[sp + 1] = pc + 2]_vars

\* C13: once a cycle has fetched Fx0A, a following cycle taken while no key
\* is pressed does not advance pc and writes no V register.
C13_WaitForKey ==
    [][(/\ emulate_cycle
        /\ op = "emulate_cycle"
        /\ opcode \div 4096 = 15
        /\ opcode % 256 = 10
        /\ \A k \in 1..CHIP8_KEYS : keys[k] = 0)
          => (pc' = pc /\ v' = v)]_vars

\* C14: pc is even in every state reached from construction by loads, key
\* updates and cycles.
C14_PcEven == pc % 2 = 0

\* C14 witness: a RET has assigned pc, with the longest ROM in memory
C14_Witness ==
    /\ op = "emulate_cycle"
    /\ opcode = OP_RET
    /\ err = "none"
    /\ pc = 0
    /\ memory[CHIP8_MEMORY_SIZE] = 255

\* C15: GUI.run calls emulate_cycle, then draw, then handle_events, in this
\* order, in every iteration; the draw flag is false whenever a cycle starts.
C15_LoopOrder ==
    /\ [](run_at = "cycle" => draw_flag = FALSE)
    /\ [][/\ run_at = "cycle"
             => (emulate_cycle /\ run_at' \in {"draw", "exit"})
          /\ run_at = "draw"
             => (draw /\ run_at' = "events")
          /\ run_at = "events"
             => /\ \E events \in EventBatches : handle_events(events)
                /\ run_at' \in {"cycle", "exit"}]_vars

\* C15 witness: the first cycle of the loop ran CLS, draw and handle_events
\* followed, and the second cycle is about to start
C15_Witness ==
    /\ run_at = "cycle"
    /\ cycles = 1
    /\ memory[PROGRAM_START + 2] = OP_CLS
    /\ op = "handle_events"
    /\ draw_flag = FALSE

\* C16: the keypad changes only when set_keys replaces all 16 entries; no
\* other operation assigns a key entry.
C16_KeysOnlyReplaced ==
    [][keys' # keys => \E new_keys \in KeySnapshots : set_keys(new_keys)]_vars

\* C17: no operation writes the stack, every stack entry is 0 in every
\* state, and a RET that completes leaves pc = 0 whatever sp was.
C17_StackNeverWritten ==
    /\ Len(stack) = CHIP8_STACK_SIZE
    /\ \A s \in 1..Len(stack) : stack[s] = 0
    /\ (op = "emulate_cycle" /\ opcode = OP_RET /\ err = "none") => pc = 0

\* C17 witness: RET has completed a second time, from sp = -1
C17_Witness ==
    /\ op = "emulate_cycle"
    /\ opcode = OP_RET
    /\ err = "none"
    /\ sp = -2
    /\ pc = 0

\* C18: a cycle that fails leaves the whole machine as it was before the call.
C18_FailureIsAtomic ==
    [][(emulate_cycle /\ err' # "none") => UNCHANGED machine]_vars

\* C19: a cycle leaves memory, the V registers, I, the stack entries and the
\* keypad as they were, whatever the opcode.
C19_CycleFrame ==
    [][emulate_cycle => UNCHANGED << memory, v, i, stack, keys >>]_vars

\* C19 witness: a cycle has run the opcode 0x2021, a CALL of the CHIP-8
\* instruction set, which max.ch8 holds at 0x220
C19_Witness ==
    /\ op = "emulate_cycle"
    /\ opcode = 8225
    /\ err = "none"
    /\ pc = PROGRAM_START + 34

====
